---- MODULE Spec2Model ----
(***************************************************************************)
(* Go projection of jsii classes: packages/jsii-pacmak/lib/targets/go/     *)
(* types/class.ts.  A resolved type graph (jsii-reflect) is the input; one *)
(* GoClass is constructed per class of the graph, its extends/implements   *)
(* getters resolve lazily through the type registry, and emit() writes the *)
(* declarations of the class to the code maker.                            *)
(***************************************************************************)
EXTENDS Integers, Sequences, FiniteSets, TLC

VARIABLES graph, go, pc, out, reg, lookups

vars == <<graph, go, pc, out, reg, lookups>>

----------------------------------------------------------------------------
(* The universe of the resolved type graphs.                               *)

ClassNames == {"Base", "Widget"}
InterfaceNames == {"Mixin", "Printable"}
TypeNames == ClassNames \cup InterfaceNames
Assemblies == {"A", "B"}
NoType == "none"

\* Longest interface list of the class Widget / of the class Base.
MaxInterfaces == 2
MaxBaseInterfaces == 1

\* Two independent projections of the same graph.
Runs == {1, 2}

\* Alphabetical order of every name of the universe, as localeCompare
\* orders them.
NameOrder ==
  <<"A", "B", "Base", "Mixin", "Printable", "Widget",
    "apply", "build", "count", "greet", "kind", "label", "limit", "print",
    "size", "spawn", "tag", "wave", "zap">>

SeqToSet(s) == {s[i] : i \in 1..Len(s)}

RankTable ==
  [n \in SeqToSet(NameOrder) |-> CHOOSE i \in 1..Len(NameOrder) : NameOrder[i] = n]

Rank(n) == RankTable[n]

RECURSIVE Concat(_)
Concat(ss) == IF ss = <<>> THEN <<>> ELSE Head(ss) \o Concat(Tail(ss))

\* The sequences without repetition over S of length at most n.
RECURSIVE DistinctSeqs(_, _)
DistinctSeqs(S, n) ==
  IF n = 0 THEN {<<>>}
  ELSE LET shorter == DistinctSeqs(S, n - 1)
           longer == {p \in shorter \X S : p[2] \notin SeqToSet(p[1])}
       IN shorter \cup {Append(p[1], p[2]) : p \in longer}

----------------------------------------------------------------------------
(* Members and type nodes of the resolved graph (jsii-reflect).            *)

\* ref: how the return type of a method projects: "ok" a projectable type,
\* "void", "none" no reference on the member, "bad" a reference whose
\* projection throws.
Method(t, n, st, r) ==
  [name |-> n, static |-> st, immutable |-> TRUE, ref |-> r, definingType |-> t]

Property(t, n, st, ro) ==
  [name |-> n, static |-> st, immutable |-> ro, ref |-> "ok", definingType |-> t]

Members(ms, ps, ctor) == [methods |-> ms, properties |-> ps, initializer |-> ctor]

\* The own members a type of the universe may declare.
OwnMembers(t) ==
  CASE t = "Base" ->
         { Members(<<Method(t, "greet", FALSE, "ok"), Method(t, "build", TRUE, "ok")>>,
                   <<Property(t, "label", FALSE, FALSE), Property(t, "kind", FALSE, TRUE)>>,
                   TRUE) }
    [] t = "Mixin" ->
         { Members(<<Method(t, "wave", FALSE, "void"), Method(t, "apply", FALSE, "ok")>>,
                   <<Property(t, "tag", FALSE, FALSE)>>, FALSE) }
    [] t = "Printable" ->
         { Members(<<Method(t, "print", FALSE, "ok")>>, <<>>, FALSE) }
    [] t = "Widget" ->
         { Members(<<>>, <<>>, FALSE),
           Members(<<Method(t, "zap", FALSE, "ok"), Method(t, "greet", FALSE, "void")>>,
                   <<Property(t, "size", FALSE, FALSE), Property(t, "kind", FALSE, TRUE)>>,
                   TRUE),
           Members(<<Method(t, "spawn", TRUE, "ok"), Method(t, "build", TRUE, "void")>>,
                   <<Property(t, "limit", TRUE, TRUE), Property(t, "count", TRUE, FALSE)>>,
                   FALSE),
           Members(<<Method(t, "zap", FALSE, "bad"), Method(t, "spawn", TRUE, "ok")>>,
                   <<Property(t, "size", FALSE, TRUE)>>, TRUE),
           Members(<<Method(t, "zap", FALSE, "none")>>, <<>>, FALSE) }

\* The base class and the interface lists a type of the universe may have.
Bases(t) == IF t = "Widget" THEN {NoType, "Base"} ELSE {NoType}

InterfaceLists(t) ==
  CASE t = "Widget" -> DistinctSeqs(InterfaceNames, MaxInterfaces)
    [] t = "Base" -> DistinctSeqs(InterfaceNames, MaxBaseInterfaces)
    [] t = "Printable" -> {<<>>, <<"Mixin">>}
    [] t = "Mixin" -> {<<>>}

TypeNode(t, a, b, is, m) ==
  [fqn |-> t, assembly |-> a,
   kind |-> IF t \in ClassNames THEN "class" ELSE "interface",
   base |-> b, interfaces |-> is,
   ownMethods |-> m.methods, ownProperties |-> m.properties,
   initializer |-> m.initializer]

TypeNodes(t) ==
  {TypeNode(t, a, b, is, m) :
     a \in (IF t = "Widget" THEN {"A"} ELSE Assemblies),
     b \in Bases(t), is \in InterfaceLists(t), m \in OwnMembers(t)}

\* Every resolved, acyclic graph of the universe.
Graphs ==
  {[t \in TypeNames |->
      CASE t = "Base" -> b [] t = "Widget" -> w
        [] t = "Mixin" -> m [] t = "Printable" -> p] :
     b \in TypeNodes("Base"), w \in TypeNodes("Widget"),
     m \in TypeNodes("Mixin"), p \in TypeNodes("Printable")}

----------------------------------------------------------------------------
(* What the projection reads from jsii-reflect and the comparators.        *)

DirectAncestors(g, t) ==
  (IF g[t].base # NoType THEN {g[t].base} ELSE {}) \cup SeqToSet(g[t].interfaces)

\* type.getAncestors(): every ancestor, base class or interface, direct or
\* transitive.
RECURSIVE getAncestors(_, _)
getAncestors(g, t) ==
  DirectAncestors(g, t) \cup UNION {getAncestors(g, a) : a \in DirectAncestors(g, t)}

\* One logical member per name: a member met again replaces the one already
\* collected, in its place.
RECURSIVE MergeMembers(_, _)
MergeMembers(acc, ms) ==
  IF ms = <<>> THEN acc
  ELSE LET m == Head(ms)
           at == {i \in 1..Len(acc) : acc[i].name = m.name}
       IN MergeMembers(IF at = {} THEN Append(acc, m)
                       ELSE [i \in 1..Len(acc) |-> IF i \in at THEN m ELSE acc[i]],
                       Tail(ms))

\* type.allMethods / type.allProperties: the members of the base-class
\* chain, then those of the interfaces, then the own ones.
RECURSIVE allMethods(_, _)
allMethods(g, t) ==
  LET inherited ==
        (IF g[t].base # NoType THEN allMethods(g, g[t].base) ELSE <<>>)
        \o Concat([i \in 1..Len(g[t].interfaces) |-> allMethods(g, g[t].interfaces[i])])
  IN MergeMembers(<<>>, inherited \o g[t].ownMethods)

RECURSIVE allProperties(_, _)
allProperties(g, t) ==
  LET inherited ==
        (IF g[t].base # NoType THEN allProperties(g, g[t].base) ELSE <<>>)
        \o Concat([i \in 1..Len(g[t].interfaces) |-> allProperties(g, g[t].interfaces[i])])
  IN MergeMembers(<<>>, inherited \o g[t].ownProperties)

\* Array.prototype.sort with a comparator that orders by a key (keys[i] is
\* the key of s[i]): stable, the elements of equal key keep their order.
Sort(s, keys) ==
  LET n == Len(s)
      pos(k) == 1 + Cardinality({j \in 1..n :
                       \/ keys[j] < keys[k]
                       \/ keys[j] = keys[k] /\ j < k})
  IN [i \in 1..n |-> s[CHOOSE k \in 1..n : pos(k) = i]]

\* comparators.byName: l.name.localeCompare(r.name)
byName(ms) == [i \in 1..Len(ms) |-> Rank(ms[i].name)]

\* l.fqn.localeCompare(r.fqn): the fully qualified name of a type starts
\* with the name of its assembly.
byFqn(g, ts) ==
  [i \in 1..Len(ts) |-> Rank(g[ts[i]].assembly) * (Len(NameOrder) + 1) + Rank(ts[i])]

\* pkg.root.findType(fqn): the projection registered under that name.
findType(g, fqn) == g[fqn].fqn

\* The package of a type is the package of its assembly.
pkg(g, t) == g[t].assembly

----------------------------------------------------------------------------
(* GoClass: the constructor.                                               *)

Undefined == [set |-> FALSE, val |-> <<>>]
Defined(v) == [set |-> TRUE, val |-> v]

\* A variant that does not set the static methods apart.
methods_withStatics(type) == Sort(type.ownMethods, byName(type.ownMethods))

\* this.methods / this.staticMethods: the own methods, split and sorted.
methods(type) ==
  LET own == SelectSeq(type.ownMethods, LAMBDA m : ~m.static)
  IN Sort(own, byName(own))

staticMethods(type) ==
  LET own == SelectSeq(type.ownMethods, LAMBDA m : m.static)
  IN Sort(own, byName(own))

\* this.properties / this.staticProperties
properties(type) ==
  LET own == SelectSeq(type.ownProperties, LAMBDA p : ~p.static)
  IN Sort(own, byName(own))

staticProperties(type) ==
  LET own == SelectSeq(type.ownProperties, LAMBDA p : p.static)
  IN Sort(own, byName(own))

\* A variant that forgets that the base class counts as a direct ancestor.
hasMultipleBases_ignoresBase(type) == Len(type.interfaces) > 1

hasMultipleBases(type) ==
  Len(type.interfaces) > (IF type.base # NoType THEN 0 ELSE 1)

\* A variant that flattens whenever some ancestor is foreign.
requiresFlattening_anyForeign(g, t) ==
  \E ancestor \in getAncestors(g, t) : g[ancestor].assembly # g[t].assembly

\* The condition under which the members are re-implemented on the proxy.
requiresFlattening(g, t) ==
  /\ hasMultipleBases(g[t])
  /\ \E ancestor \in getAncestors(g, t) : g[ancestor].assembly # g[t].assembly

\* A variant that keeps the static members of the ancestors.
reimplementedMethods_keepsStatic(g, t) ==
  LET inherited == SelectSeq(allMethods(g, t), LAMBDA method : method.definingType # t)
  IN Sort(inherited, byName(inherited))

\* A variant that leaves the inherited methods in the order of the graph.
reimplementedMethods_unsorted(g, t) ==
  SelectSeq(allMethods(g, t),
            LAMBDA method : ~method.static /\ method.definingType # t)

reimplementedMethods(g, t) ==
  LET inherited ==
        SelectSeq(allMethods(g, t),
                  LAMBDA method : ~method.static /\ method.definingType # t)
  IN Sort(inherited, byName(inherited))

reimplementedProperties(g, t) ==
  LET inherited ==
        SelectSeq(allProperties(g, t),
                  LAMBDA property : ~property.static /\ property.definingType # t)
  IN Sort(inherited, byName(inherited))

\* new GoClass(pkg, type)
GoClass(g, t) ==
  [type |-> t,
   methods |-> methods(g[t]),
   staticMethods |-> staticMethods(g[t]),
   properties |-> properties(g[t]),
   staticProperties |-> staticProperties(g[t]),
   reimplementedMethods |->
     IF requiresFlattening(g, t) THEN Defined(reimplementedMethods(g, t))
     ELSE Undefined,
   reimplementedProperties |->
     IF requiresFlattening(g, t) THEN Defined(reimplementedProperties(g, t))
     ELSE Undefined,
   _extends |-> "undefined",
   _implements |-> Undefined,
   initializer |-> g[t].initializer]

\* The class before its GoClass exists.
NoGoClass(t) ==
  [type |-> t, methods |-> <<>>, staticMethods |-> <<>>, properties |-> <<>>,
   staticProperties |-> <<>>, reimplementedMethods |-> Undefined,
   reimplementedProperties |-> Undefined, _extends |-> "undefined",
   _implements |-> Undefined, initializer |-> FALSE]

----------------------------------------------------------------------------
(* GoClass: the lazy getters.                                              *)

\* A variant that tests the cache for truthiness: the null that stands for
\* "no base class" reads as not yet resolved.
needsExtends_falsy(this) == this._extends \in {"undefined", "null"}

\* this._extends === undefined: no access resolved the base class yet.
needsExtends(this) == this._extends = "undefined"

\* this._implements === undefined
needsImplements(this) == ~this._implements.set

\* The object after `get extends` ran: _extends is resolved on first access.
ResolveExtends(g, this) ==
  IF needsExtends(this)
  THEN [this EXCEPT !._extends =
          IF g[this.type].base # NoType THEN findType(g, g[this.type].base)
          ELSE "null"]
  ELSE this

\* A variant that reads the cache without resolving it.
extends_unresolved(g, this) ==
  IF this._extends \in {"undefined", "null"} THEN NoType ELSE this._extends

\* What `get extends` returns: the base class, or undefined (NoType).
extends(g, this) ==
  LET e == ResolveExtends(g, this)._extends
  IN IF e = "null" THEN NoType ELSE e

\* A variant that keeps the interfaces in the order of their declaration.
ResolveImplements_declaredOrder(g, this) ==
  IF ~this._implements.set
  THEN [this EXCEPT !._implements =
          Defined([i \in 1..Len(g[this.type].interfaces) |->
                     findType(g, g[this.type].interfaces[i])])]
  ELSE this

\* The object after `get implements` ran.
ResolveImplements(g, this) ==
  IF needsImplements(this)
  THEN LET found == [i \in 1..Len(g[this.type].interfaces) |->
                       findType(g, g[this.type].interfaces[i])]
       IN [this EXCEPT !._implements = Defined(Sort(found, byFqn(g, found)))]
  ELSE this

implements(g, this) == ResolveImplements(g, this)._implements.val

baseTypes(g, this) ==
  (IF extends(g, this) # NoType THEN <<extends(g, this)>> ELSE <<>>)
  \o implements(g, this)

----------------------------------------------------------------------------
(* What emit() writes to the code maker: one entry per declaration.        *)

Line(d, c, n, f, ty) == [decl |-> d, of |-> c, name |-> n, form |-> f, ty |-> ty]

\* An entry whose spelling could not be computed: the call that would have
\* written it threw.
Throws == "THROW"

\* GoTypeRef.scopedInterfaceName: the spelling of a projectable type; it
\* throws for a type that has none.
scopedInterfaceName(ref) == IF ref = "bad" THEN Throws ELSE "T"

\* ClassMethod.returnType
returnType(method) ==
  IF method.ref # "none" THEN scopedInterfaceName(method.ref) ELSE "toString"

\* const returnTypeString = this.reference?.void ? '' : ` ${this.returnType}`
returnTypeString(method) ==
  IF method.ref = "void" THEN "" ELSE returnType(method)

\* ClassMethod.emitDecl
emitDecl(c, method) ==
  <<Line("methodDecl", c, method.name, "", returnTypeString(method))>>

\* ClassMethod.emit
ClassMethod_emit(c, method) ==
  <<Line("method", c, method.name, "", returnTypeString(method))>>

\* StaticMethod.emit
StaticMethod_emit(c, method) ==
  <<Line("staticMethod", c, method.name, "", returnTypeString(method))>>

\* GoClassConstructor.emit
GoClassConstructor_emit(c) == <<Line("constructor", c, c, "", "")>>

\* GoProperty: a getter, and a setter when the property is not read-only.
emitGetterDecl(c, property) == <<Line("getterDecl", c, property.name, "", "T")>>

emitSetterDecl(c, property) ==
  IF property.immutable THEN <<>>
  ELSE <<Line("setterDecl", c, property.name, "", "T")>>

emitGetterProxy(c, property) == <<Line("getter", c, property.name, "", "T")>>

emitSetterProxy(c, property) ==
  IF property.immutable THEN <<>>
  ELSE <<Line("setter", c, property.name, "", "T")>>

OrEmpty(opt) == IF opt.set THEN opt.val ELSE <<>>

\* A variant that does not embed the interface of the base class.
emitInterface_withoutBase(g, this) ==
  LET c == this.type
      ifaces == implements(g, this)
  IN <<Line("interface", c, c, "", "")>>
     \o [i \in 1..Len(ifaces) |->
           Line("interfaceEmbed", c, ifaces[i], "interface", "")]
     \o Concat([i \in 1..Len(this.properties) |->
                  emitGetterDecl(c, this.properties[i])
                  \o emitSetterDecl(c, this.properties[i])])
     \o Concat([i \in 1..Len(this.methods) |-> emitDecl(c, this.methods[i])])
     \o <<Line("interfaceEnd", c, c, "", "")>>

emitInterface(g, this) ==
  LET c == this.type
      base == extends(g, this)
      ifaces == implements(g, this)
  IN <<Line("interface", c, c, "", "")>>
     \o (IF base # NoType
         THEN <<Line("interfaceEmbed", c, base, "interface", "")>>
         ELSE <<>>)
     \o [i \in 1..Len(ifaces) |->
           Line("interfaceEmbed", c, ifaces[i], "interface", "")]
     \o Concat([i \in 1..Len(this.properties) |->
                  emitGetterDecl(c, this.properties[i])
                  \o emitSetterDecl(c, this.properties[i])])
     \o Concat([i \in 1..Len(this.methods) |-> emitDecl(c, this.methods[i])])
     \o <<Line("interfaceEnd", c, c, "", "")>>

\* The embedded form of an ancestor: its proxy struct when it is of the same
\* package, its interface otherwise.
Embed(g, this, anc) ==
  IF pkg(g, anc) = pkg(g, this.type) THEN "proxy" ELSE "interface"

emitStruct(g, this) ==
  LET c == this.type
      base == extends(g, this)
      ifaces == implements(g, this)
  IN <<Line("struct", c, c, "", "")>>
     \o (IF base = NoType /\ Len(ifaces) = 0
         THEN <<Line("padding", c, "_", "", "")>>
         ELSE (IF base # NoType
               THEN <<Line("structEmbed", c, base, Embed(g, this, base), "")>>
               ELSE <<>>)
              \o [i \in 1..Len(ifaces) |->
                    Line("structEmbed", c, ifaces[i], Embed(g, this, ifaces[i]), "")])
     \o <<Line("structEnd", c, c, "", "")>>

emitGetters(this) ==
  IF Len(this.properties) = 0 THEN <<>>
  ELSE Concat([i \in 1..Len(this.properties) |->
                 emitGetterProxy(this.type, this.properties[i])])
       \o Concat([i \in 1..Len(OrEmpty(this.reimplementedProperties)) |->
                    emitGetterProxy(this.type, OrEmpty(this.reimplementedProperties)[i])])

emitSetters(this) ==
  Concat([i \in 1..Len(this.properties) |->
            emitSetterProxy(this.type, this.properties[i])])
  \o Concat([i \in 1..Len(OrEmpty(this.reimplementedProperties)) |->
               emitSetterProxy(this.type, OrEmpty(this.reimplementedProperties)[i])])

emitStaticProperty(c, prop) ==
  <<Line("staticGetter", c, prop.name, "", "T")>>
  \o (IF ~prop.immutable THEN <<Line("staticSetter", c, prop.name, "", "T")>>
      ELSE <<>>)

\* GoClass.emit: every call of it, in order.
emit(g, this) ==
  LET c == this.type
  IN emitInterface(g, this)
     \o emitStruct(g, this)
     \o emitGetters(this)
     \o (IF this.initializer THEN GoClassConstructor_emit(c) ELSE <<>>)
     \o emitSetters(this)
     \o Concat([i \in 1..Len(this.staticMethods) |->
                  StaticMethod_emit(c, this.staticMethods[i])])
     \o Concat([i \in 1..Len(this.staticProperties) |->
                  emitStaticProperty(c, this.staticProperties[i])])
     \o Concat([i \in 1..Len(this.methods) |-> ClassMethod_emit(c, this.methods[i])])
     \o Concat([i \in 1..Len(OrEmpty(this.reimplementedMethods)) |->
                  ClassMethod_emit(c, OrEmpty(this.reimplementedMethods)[i])])

\* What reached the code maker: the entries written before the first call
\* that threw.
ThrowsAt(lines) == {i \in 1..Len(lines) : lines[i].ty = Throws}

Written(lines) ==
  IF ThrowsAt(lines) = {} THEN lines
  ELSE SubSeq(lines, 1, (CHOOSE i \in ThrowsAt(lines) :
                           \A j \in ThrowsAt(lines) : i <= j) - 1)

----------------------------------------------------------------------------
(* The state machine: the GoClass objects of each projection run.          *)

NoRegistration == [done |-> FALSE, baseTypes |-> <<>>]

NoLookups == [base |-> 0, interfaces |-> 0]

Init ==
  /\ graph \in Graphs
  /\ go = [r \in Runs |-> [c \in ClassNames |-> NoGoClass(c)]]
  /\ pc = [r \in Runs |-> [c \in ClassNames |-> "new"]]
  /\ out = [r \in Runs |-> [c \in ClassNames |-> <<>>]]
  /\ reg = [r \in Runs |-> [c \in ClassNames |-> NoRegistration]]
  /\ lookups = [r \in Runs |-> [c \in ClassNames |-> NoLookups]]

\* The base class of c is in the type registry of run r.
Resolvable(r, c) ==
  /\ pc[r][c] # "new"
  /\ graph[c].base # NoType => pc[r][graph[c].base] # "new"

\* The registry lookups an access to the getters performs.
CountExtends(this, n) ==
  [n EXCEPT !.base = IF needsExtends(this) THEN @ + 1 ELSE @]

CountImplements(this, n) ==
  [n EXCEPT !.interfaces = IF needsImplements(this) THEN @ + 1 ELSE @]

\* The type graph after the constructor ran: the arrays it sorts are the ones
\* it filled itself, and filter and map copy the lists of the type they read.
graphAfterConstructor(g, t) == g

\* A variant that sorts the interface list of the type itself.
graphAfterImplements_inPlace(g, this) ==
  IF needsImplements(this)
  THEN [g EXCEPT ![this.type].interfaces = Sort(@, byFqn(g, @))]
  ELSE g

\* The type graph after `get implements` ran: map copies type.interfaces, and
\* sort orders the copy.
graphAfterImplements(g, this) == g

Construct(r, c) ==
  /\ pc[r][c] = "new"
  /\ go' = [go EXCEPT ![r][c] = GoClass(graph, c)]
  /\ pc' = [pc EXCEPT ![r][c] = "constructed"]
  /\ graph' = graphAfterConstructor(graph, c)
  /\ UNCHANGED <<out, reg, lookups>>

GetExtends(r, c) ==
  /\ Resolvable(r, c)
  /\ go' = [go EXCEPT ![r][c] = ResolveExtends(graph, @)]
  /\ lookups' = [lookups EXCEPT ![r][c] = CountExtends(go[r][c], @)]
  /\ UNCHANGED <<graph, pc, out, reg>>

GetImplements(r, c) ==
  /\ Resolvable(r, c)
  /\ go' = [go EXCEPT ![r][c] = ResolveImplements(graph, @)]
  /\ lookups' = [lookups EXCEPT ![r][c] = CountImplements(go[r][c], @)]
  /\ graph' = graphAfterImplements(graph, go[r][c])
  /\ UNCHANGED <<pc, out, reg>>

GetBaseTypes(r, c) ==
  /\ Resolvable(r, c)
  /\ go' = [go EXCEPT ![r][c] = ResolveImplements(graph, ResolveExtends(graph, @))]
  /\ lookups' = [lookups EXCEPT ![r][c] =
                   CountImplements(go[r][c], CountExtends(go[r][c], @))]
  /\ graph' = graphAfterImplements(graph, go[r][c])
  /\ UNCHANGED <<pc, out, reg>>

\* `get dependencies` reads baseTypes and the member lists; the packages it
\* returns are held by no field.
Dependencies(r, c) ==
  /\ Resolvable(r, c)
  /\ go' = [go EXCEPT ![r][c] = ResolveImplements(graph, ResolveExtends(graph, @))]
  /\ lookups' = [lookups EXCEPT ![r][c] =
                   CountImplements(go[r][c], CountExtends(go[r][c], @))]
  /\ graph' = graphAfterImplements(graph, go[r][c])
  /\ UNCHANGED <<pc, out, reg>>

Emit(r, c) ==
  /\ pc[r][c] = "constructed"
  /\ Resolvable(r, c)
  /\ LET lines == emit(graph, go[r][c])
     IN /\ out' = [out EXCEPT ![r][c] = @ \o Written(lines)]
        /\ pc' = [pc EXCEPT ![r][c] =
                    IF ThrowsAt(lines) = {} THEN "emitted" ELSE "failed"]
  /\ go' = [go EXCEPT ![r][c] = ResolveImplements(graph, ResolveExtends(graph, @))]
  /\ lookups' = [lookups EXCEPT ![r][c] =
                   CountImplements(go[r][c], CountExtends(go[r][c], @))]
  /\ graph' = graphAfterImplements(graph, go[r][c])
  /\ UNCHANGED reg

EmitRegistration(r, c) ==
  /\ Resolvable(r, c)
  /\ ~reg[r][c].done
  /\ reg' = [reg EXCEPT ![r][c] =
               [done |-> TRUE, baseTypes |-> baseTypes(graph, go[r][c])]]
  /\ go' = [go EXCEPT ![r][c] = ResolveImplements(graph, ResolveExtends(graph, @))]
  /\ lookups' = [lookups EXCEPT ![r][c] =
                   CountImplements(go[r][c], CountExtends(go[r][c], @))]
  /\ graph' = graphAfterImplements(graph, go[r][c])
  /\ UNCHANGED <<pc, out>>

Next ==
  \E c \in ClassNames :
    \/ Construct(1, c)
    \/ GetExtends(1, c)
    \/ GetImplements(1, c)
    \/ GetBaseTypes(1, c)
    \/ Dependencies(1, c)
    \/ Emit(1, c)
    \/ EmitRegistration(1, c)

Spec == Init /\ [][Next]_vars

----------------------------------------------------------------------------
(* Properties of the flattening decision.                                  *)

Names(ms) == [i \in 1..Len(ms) |-> ms[i].name]

NameSet(ms) == {ms[i].name : i \in 1..Len(ms)}

HasForeignAncestor(g, c) ==
  \E a \in getAncestors(g, c) : g[a].assembly # g[c].assembly

Flattened(this) ==
  this.reimplementedMethods.set /\ this.reimplementedProperties.set

NotFlattened(this) ==
  /\ ~this.reimplementedMethods.set /\ ~this.reimplementedProperties.set
  /\ OrEmpty(this.reimplementedMethods) = <<>>
  /\ OrEmpty(this.reimplementedProperties) = <<>>

\* The scenario of the specification: Widget (A) extends Base (A), which
\* declares greet, and implements Mixin (B), which declares wave.
WidgetScenario ==
  /\ graph["Widget"].base = "Base" /\ "Mixin" \in SeqToSet(graph["Widget"].interfaces)
  /\ graph["Widget"].assembly = "A" /\ graph["Base"].assembly = "A"
  /\ graph["Mixin"].assembly = "B"
  /\ "greet" \in NameSet(graph["Base"].ownMethods)
  /\ "greet" \notin NameSet(graph["Widget"].ownMethods)

\* C1: a constructed class with at least two direct ancestors, one of whose
\* ancestors (direct or transitive) is of another assembly, is flattened: both
\* re-implementation lists are defined; in the Widget scenario greet and wave
\* are both re-implemented.
C1_FlatteningNecessity ==
  \A c \in ClassNames :
    pc[1][c] # "new" =>
      /\ (Cardinality(DirectAncestors(graph, c)) >= 2 /\ HasForeignAncestor(graph, c))
           => Flattened(go[1][c])
      /\ (c = "Widget" /\ WidgetScenario)
           => {"greet", "wave"} \subseteq NameSet(OrEmpty(go[1][c].reimplementedMethods))

C1_Witness ==
  /\ pc[1]["Widget"] # "new" /\ WidgetScenario
  /\ Len(graph["Widget"].interfaces) = 1
  /\ Flattened(go[1]["Widget"])
  /\ {"greet", "wave"} \subseteq NameSet(go[1]["Widget"].reimplementedMethods.val)

\* C2: a constructed class with at most one direct ancestor, or whose
\* ancestors are all of its own assembly, is not flattened: its
\* re-implementation lists are absent.
C2_FlatteningOnlyWhenBoth ==
  \A c \in ClassNames :
    (/\ pc[1][c] # "new"
     /\ \/ Cardinality(DirectAncestors(graph, c)) <= 1
        \/ ~HasForeignAncestor(graph, c))
      => NotFlattened(go[1][c])

\* A class whose only direct ancestor is an interface of another assembly.
C2_Witness ==
  /\ pc[1]["Widget"] # "new"
  /\ graph["Widget"].base = NoType
  /\ graph["Widget"].interfaces = <<"Mixin">>
  /\ graph["Mixin"].assembly # graph["Widget"].assembly
  /\ NotFlattened(go[1]["Widget"])

----------------------------------------------------------------------------
(* Properties of the re-implementation lists.                              *)

OwnMethods(g) == [t \in TypeNames |-> g[t].ownMethods]

OwnProperties(g) == [t \in TypeNames |-> g[t].ownProperties]

\* The names of the instance members the ancestors of c declare and c does
\* not declare itself; own[t] is the list of own methods, or of own
\* properties, of the type t.
InheritedNames(g, c, own) ==
  {m.name : m \in {x \in UNION {SeqToSet(own[a]) : a \in getAncestors(g, c)} :
                     ~x.static}}
  \ NameSet(own[c])

ExactlyInherited(r, g, c, own) ==
  /\ \A i, j \in 1..Len(r) : i # j => r[i].name # r[j].name
  /\ \A i \in 1..Len(r) :
       /\ ~r[i].static
       /\ r[i].definingType # c
       /\ r[i].definingType \in getAncestors(g, c)
       /\ r[i] \in SeqToSet(own[r[i].definingType])
       /\ r[i].name \notin NameSet(own[c])
  /\ NameSet(r) = InheritedNames(g, c, own)

\* C3: the re-implementation lists of a flattened class hold exactly the
\* instance members its ancestors declare and it does not declare itself:
\* each of them once, no static member, no member of the class itself.
C3_ExactlyInheritedMembers ==
  \A c \in ClassNames :
    (pc[1][c] # "new" /\ Flattened(go[1][c])) =>
      /\ ExactlyInherited(go[1][c].reimplementedMethods.val, graph, c,
                          OwnMethods(graph))
      /\ ExactlyInherited(go[1][c].reimplementedProperties.val, graph, c,
                          OwnProperties(graph))

\* Widget overrides greet and kind of Base, Base has a static method, and
\* Mixin is reached through Base, through Printable and directly.
C3_Witness ==
  /\ pc[1]["Widget"] # "new" /\ Flattened(go[1]["Widget"])
  /\ graph["Widget"].base = "Base"
  /\ graph["Widget"].interfaces = <<"Printable", "Mixin">>
  /\ graph["Printable"].interfaces = <<"Mixin">>
  /\ graph["Base"].interfaces = <<"Mixin">>
  /\ "build" \in NameSet(graph["Base"].ownMethods)
  /\ "greet" \in NameSet(graph["Widget"].ownMethods)
  /\ Names(go[1]["Widget"].reimplementedMethods.val) = <<"apply", "print", "wave">>
  /\ Names(go[1]["Widget"].reimplementedProperties.val) = <<"label", "tag">>

LinesOf(lines, d) == SelectSeq(lines, LAMBDA l : l.decl = d)

\* C4: every re-implemented method, and the getter and (unless read-only) the
\* setter of every re-implemented property, is implemented on the proxy of an
\* emitted flattened class.
C4_EveryReimplementedMemberEmitted ==
  \A c \in ClassNames :
    (pc[1][c] = "emitted" /\ Flattened(go[1][c])) =>
      /\ \A m \in SeqToSet(go[1][c].reimplementedMethods.val) :
           m.name \in NameSet(LinesOf(out[1][c], "method"))
      /\ \A p \in SeqToSet(go[1][c].reimplementedProperties.val) :
           /\ p.name \in NameSet(LinesOf(out[1][c], "getter"))
           /\ ~p.immutable => p.name \in NameSet(LinesOf(out[1][c], "setter"))

IsBaseChainMember(m) == m.definingType \in ClassNames

SortedByName(r) ==
  \A i, j \in 1..Len(r) : i < j => Rank(r[i].name) < Rank(r[j].name)

\* The members declared in the base-class chain first, then those declared
\* in interfaces, each group sorted by name.
GroupedByOrigin(r) ==
  \A i, j \in 1..Len(r) :
    i < j =>
      /\ ~(~IsBaseChainMember(r[i]) /\ IsBaseChainMember(r[j]))
      /\ IsBaseChainMember(r[i]) = IsBaseChainMember(r[j])
           => Rank(r[i].name) < Rank(r[j].name)

\* C5 as stated: the re-implementation lists of a flattened class hold the
\* members inherited through the base-class chain first, then those inherited
\* from interfaces, each group sorted by name.
C5_BaseChainFirst ==
  \A c \in ClassNames :
    (pc[1][c] # "new" /\ Flattened(go[1][c])) =>
      /\ GroupedByOrigin(go[1][c].reimplementedMethods.val)
      /\ GroupedByOrigin(go[1][c].reimplementedProperties.val)

\* C5 as amended: the re-implemented methods and the re-implemented
\* properties of a flattened class are each sorted by name as a whole, and
\* emit() implements the re-implemented methods in that order, after the own
\* methods of the class.
C5_SortedByName ==
  \A c \in ClassNames :
    (pc[1][c] # "new" /\ Flattened(go[1][c])) =>
      /\ SortedByName(go[1][c].reimplementedMethods.val)
      /\ SortedByName(go[1][c].reimplementedProperties.val)
      /\ pc[1][c] = "emitted" =>
           Names(LinesOf(out[1][c], "method"))
             = Names(go[1][c].methods) \o Names(go[1][c].reimplementedMethods.val)

\* apply, inherited from the interface Mixin, precedes greet, inherited from
\* the base class.
C5_Witness ==
  /\ pc[1]["Widget"] = "emitted" /\ Flattened(go[1]["Widget"])
  /\ graph["Widget"].base = "Base" /\ graph["Base"].interfaces = <<>>
  /\ Names(go[1]["Widget"].reimplementedMethods.val) = <<"apply", "greet", "wave">>
  /\ Names(LinesOf(out[1]["Widget"], "method")) = <<"apply", "greet", "wave">>

----------------------------------------------------------------------------
(* Properties of the emitted declarations.                                 *)

BaseOf(g, c) == IF g[c].base # NoType THEN <<g[c].base>> ELSE <<>>

\* l.fqn precedes r.fqn: the name of the assembly first, then the name.
FqnBefore(g, l, r) ==
  \/ Rank(g[l].assembly) < Rank(g[r].assembly)
  \/ g[l].assembly = g[r].assembly /\ Rank(l) < Rank(r)

EmbedFormsRight(g, c, embeds) ==
  \A i \in 1..Len(embeds) :
    embeds[i].form = IF g[embeds[i].name].assembly = g[c].assembly
                     THEN "proxy" ELSE "interface"

\* C6 as stated: the proxy struct of an emitted class with a direct ancestor
\* embeds the base class first, then the interfaces in the order of their
\* declaration, each as proxy struct (same package) or interface (foreign);
\* the capability interface and baseTypes follow the same order.
C6_DeclaredOrder ==
  \A c \in ClassNames :
    (pc[1][c] = "emitted" /\ DirectAncestors(graph, c) # {}) =>
      LET embeds == LinesOf(out[1][c], "structEmbed")
      IN /\ Names(embeds) = BaseOf(graph, c) \o graph[c].interfaces
         /\ EmbedFormsRight(graph, c, embeds)
         /\ Names(LinesOf(out[1][c], "interfaceEmbed")) = Names(embeds)
         /\ reg[1][c].done => reg[1][c].baseTypes = Names(embeds)

\* C6 as amended: the base class first, then the interfaces sorted by fully
\* qualified name, one entry per direct ancestor, each as proxy struct (same
\* package) or interface (foreign); the capability interface and baseTypes
\* follow the same order.
C6_SortedByFqn ==
  \A c \in ClassNames :
    (pc[1][c] = "emitted" /\ DirectAncestors(graph, c) # {}) =>
      LET embeds == LinesOf(out[1][c], "structEmbed")
          nb == Len(BaseOf(graph, c))
      IN /\ Len(embeds) = Cardinality(DirectAncestors(graph, c))
         /\ SubSeq(Names(embeds), 1, nb) = BaseOf(graph, c)
         /\ {embeds[i].name : i \in (nb + 1)..Len(embeds)}
              = SeqToSet(graph[c].interfaces)
         /\ \A i, j \in (nb + 1)..Len(embeds) :
              i < j => FqnBefore(graph, embeds[i].name, embeds[j].name)
         /\ EmbedFormsRight(graph, c, embeds)
         /\ Names(LinesOf(out[1][c], "interfaceEmbed")) = Names(embeds)
         /\ reg[1][c].done => reg[1][c].baseTypes = Names(embeds)

\* Widget declares Mixin (B) before Printable (A): A.Printable is embedded
\* before B.Mixin.
C6_Witness ==
  /\ pc[1]["Widget"] = "emitted" /\ reg[1]["Widget"].done
  /\ graph["Widget"].base = "Base" /\ graph["Base"].assembly = "A"
  /\ graph["Widget"].interfaces = <<"Mixin", "Printable">>
  /\ graph["Mixin"].assembly = "B" /\ graph["Printable"].assembly = "A"
  /\ Names(LinesOf(out[1]["Widget"], "structEmbed")) = <<"Base", "Printable", "Mixin">>
  /\ reg[1]["Widget"].baseTypes = <<"Base", "Printable", "Mixin">>

InstanceDecls == {"getterDecl", "setterDecl", "methodDecl", "getter", "setter", "method"}

StaticDecls == {"staticMethod", "staticGetter", "staticSetter"}

\* The names of the static members of c and of its ancestors.
StaticNames(g, c) ==
  {m.name : m \in {x \in UNION {SeqToSet(g[t].ownMethods) \cup SeqToSet(g[t].ownProperties) :
                                  t \in {c} \cup getAncestors(g, c)} : x.static}}

OwnStatics(g, c) ==
  {x \in SeqToSet(g[c].ownMethods) \cup SeqToSet(g[c].ownProperties) : x.static}

NoStaticOnInstance(g, c, lines) ==
  \A i \in 1..Len(lines) :
    lines[i].decl \in InstanceDecls => lines[i].name \notin StaticNames(g, c)

Count(lines, d, n) == Len(SelectSeq(lines, LAMBDA l : l.decl = d /\ l.name = n))

\* C7 as stated: no static member is declared in the interface or implemented
\* on the proxy of an emitted class, and every static member - method or
\* property, read-only or settable - yields exactly one free function.
C7_OneFunctionPerStatic ==
  \A c \in ClassNames :
    pc[1][c] = "emitted" =>
      /\ NoStaticOnInstance(graph, c, out[1][c])
      /\ \A m \in OwnStatics(graph, c) :
           Len(SelectSeq(out[1][c],
                         LAMBDA l : l.decl \in StaticDecls /\ l.name = m.name)) = 1

\* C7 as amended: no static member is declared in the interface or
\* implemented on the proxy; a static method yields exactly one free function,
\* a static property exactly one getter function and, when it is not
\* read-only, exactly one setter function besides.
C7_StaticFunctions ==
  \A c \in ClassNames :
    pc[1][c] = "emitted" =>
      /\ NoStaticOnInstance(graph, c, out[1][c])
      /\ \A i \in 1..Len(out[1][c]) :
           out[1][c][i].decl \in StaticDecls =>
             /\ out[1][c][i].of = c
             /\ out[1][c][i].name \in {m.name : m \in OwnStatics(graph, c)}
      /\ \A m \in {x \in SeqToSet(graph[c].ownMethods) : x.static} :
           /\ Count(out[1][c], "staticMethod", m.name) = 1
           /\ Count(out[1][c], "staticGetter", m.name) = 0
           /\ Count(out[1][c], "staticSetter", m.name) = 0
      /\ \A p \in {x \in SeqToSet(graph[c].ownProperties) : x.static} :
           /\ Count(out[1][c], "staticMethod", p.name) = 0
           /\ Count(out[1][c], "staticGetter", p.name) = 1
           /\ Count(out[1][c], "staticSetter", p.name) = IF p.immutable THEN 0 ELSE 1

\* Widget with two static methods, a read-only and a settable static
\* property, and an inherited static method of Base.
C7_Witness ==
  /\ pc[1]["Widget"] = "emitted"
  /\ graph["Widget"].base = "Base"
  /\ "build" \in StaticNames(graph, "Base")
  /\ Names(LinesOf(out[1]["Widget"], "staticMethod")) = <<"build", "spawn">>
  /\ Names(LinesOf(out[1]["Widget"], "staticGetter")) = <<"count", "limit">>
  /\ Names(LinesOf(out[1]["Widget"], "staticSetter")) = <<"count">>

\* The instance capabilities of a member: a call, a getter, a setter.
MethodSigs(ms) == {<<"call", m.name>> : m \in {x \in SeqToSet(ms) : ~x.static}}

PropertySigs(ps) ==
  {<<"get", p.name>> : p \in {x \in SeqToSet(ps) : ~x.static}}
  \cup {<<"set", p.name>> : p \in {x \in SeqToSet(ps) : ~x.static /\ ~x.immutable}}

\* The members reachable in the type graph: the own ones and those of every
\* ancestor.
SourceCapability(g, c) ==
  UNION {MethodSigs(g[t].ownMethods) \cup PropertySigs(g[t].ownProperties) :
           t \in {c} \cup getAncestors(g, c)}

\* GoInterface: the interface of an interface type declares its own members
\* and embeds the interfaces it extends.
RECURSIVE InterfaceCapability(_, _)
InterfaceCapability(g, i) ==
  MethodSigs(g[i].ownMethods) \cup PropertySigs(g[i].ownProperties)
  \cup UNION {InterfaceCapability(g, j) : j \in SeqToSet(g[i].interfaces)}

DeclKind(d) ==
  CASE d = "methodDecl" -> "call" [] d = "getterDecl" -> "get" [] d = "setterDecl" -> "set"

Declarations(lines) ==
  SelectSeq(lines, LAMBDA l : l.decl \in {"methodDecl", "getterDecl", "setterDecl"})

\* The members reachable from the emitted interface of the class c: those it
\* declares and those of the interfaces it embeds.
RECURSIVE GeneratedCapability(_)
GeneratedCapability(c) ==
  {<<DeclKind(l.decl), l.name>> : l \in SeqToSet(Declarations(out[1][c]))}
  \cup UNION {IF e.name \in ClassNames THEN GeneratedCapability(e.name)
              ELSE InterfaceCapability(graph, e.name) :
                e \in SeqToSet(LinesOf(out[1][c], "interfaceEmbed"))}

AncestorsEmitted(c) ==
  \A a \in getAncestors(graph, c) \cap ClassNames : pc[1][a] = "emitted"

\* C8: the instance members reachable from the emitted interface of a class
\* (declared, or reached through an embedded interface) are exactly those
\* reachable in the type graph from the class and its ancestors, and the
\* interface declares none of them twice.
C8_CapabilityPreserved ==
  \A c \in ClassNames :
    (pc[1][c] = "emitted" /\ AncestorsEmitted(c)) =>
      /\ GeneratedCapability(c) = SourceCapability(graph, c)
      /\ LET ds == Declarations(out[1][c])
         IN \A i, j \in 1..Len(ds) :
              i # j => <<ds[i].decl, ds[i].name>> # <<ds[j].decl, ds[j].name>>

C8_Witness ==
  /\ pc[1]["Widget"] = "emitted" /\ pc[1]["Base"] = "emitted"
  /\ graph["Widget"].base = "Base"
  /\ graph["Widget"].interfaces = <<"Printable">>
  /\ graph["Printable"].interfaces = <<"Mixin">>
  /\ graph["Base"].interfaces = <<>>
  /\ <<"call", "zap">> \in GeneratedCapability("Widget")
  /\ <<"set", "label">> \in GeneratedCapability("Widget")
  /\ <<"call", "wave">> \in GeneratedCapability("Widget")
  /\ GeneratedCapability("Widget") = SourceCapability(graph, "Widget")

\* C9: a class whose projection failed leaves nothing in the output, no
\* substitute spelling stands for a type that has no projection, and the
\* output of a class holds declarations of that class only.
C9_FailureIsAtomic ==
  \A c \in ClassNames :
    /\ pc[1][c] = "failed" => out[1][c] = <<>>
    /\ \A i \in 1..Len(out[1][c]) :
         /\ out[1][c][i].ty # "toString"
         /\ out[1][c][i].of = c

----------------------------------------------------------------------------
(* Two projections of the same graph.                                      *)

\* The graphs projected twice: Widget extends Base, both declare members and
\* a constructor.
DetGraphs ==
  {g \in Graphs :
     /\ g["Widget"].base = "Base"
     /\ g["Base"].interfaces = <<>>
     /\ g["Widget"].ownProperties # <<>>
     /\ g["Widget"].initializer}

InitDet == Init /\ graph \in DetGraphs

\* Each run constructs the classes, reads the getters and emits in an order
\* of its own.
NextDet ==
  \E r \in Runs, c \in ClassNames :
    \/ Construct(r, c)
    \/ GetExtends(r, c)
    \/ GetImplements(r, c)
    \/ Emit(r, c)

SpecDet == InitDet /\ [][NextDet]_vars

\* The result of the constructor: everything but the two caches.
Constructed(this) ==
  [this EXCEPT !._extends = "undefined", !._implements = Undefined]

Emitted(r, c) == pc[r][c] \in {"emitted", "failed"}

----------------------------------------------------------------------------
(* The caches of the lazy getters.                                         *)

\* What a resolved cache holds: the base class of the type, or null, and one
\* entry per declared interface; the getters return it as it is.
CacheHoldsResult(c) ==
  /\ go[1][c]._extends # "undefined" =>
       /\ go[1][c]._extends = IF graph[c].base # NoType THEN graph[c].base ELSE "null"
       /\ extends(graph, go[1][c]) = graph[c].base
  /\ go[1][c]._implements.set =>
       /\ SeqToSet(go[1][c]._implements.val) = SeqToSet(graph[c].interfaces)
       /\ implements(graph, go[1][c]) = go[1][c]._implements.val

\* A step leaves a class that is not constructed, or that was just
\* constructed, without a lookup and with both caches unset.
NoLookupInConstructor(c) ==
  pc[1][c] = "new" =>
    /\ lookups'[1][c] = NoLookups
    /\ go'[1][c]._extends = "undefined"
    /\ ~go'[1][c]._implements.set

\* A step leaves a resolved cache and its number of lookups as they are.
CacheKept(c) ==
  /\ go[1][c]._extends # "undefined" =>
       /\ go'[1][c]._extends = go[1][c]._extends
       /\ lookups'[1][c].base = lookups[1][c].base
  /\ go[1][c]._implements.set =>
       /\ go'[1][c]._implements = go[1][c]._implements
       /\ lookups'[1][c].interfaces = lookups[1][c].interfaces

\* C11: whatever the sequence of accesses to extends, implements, baseTypes,
\* dependencies, emit and emitRegistration, the base class and the interfaces
\* of a class are each looked up at most once, exactly when the cache is
\* resolved and never by the constructor; every later access leaves the cache
\* as it is and returns what it holds, also when the class has no base class.
C11_LookupAtMostOnce ==
  /\ [](\A c \in ClassNames :
          /\ lookups[1][c].base = IF go[1][c]._extends # "undefined" THEN 1 ELSE 0
          /\ lookups[1][c].interfaces = IF go[1][c]._implements.set THEN 1 ELSE 0
          /\ CacheHoldsResult(c))
  /\ [][\A c \in ClassNames : NoLookupInConstructor(c) /\ CacheKept(c)]_vars

\* Base, which has no base class, and Widget, which extends it, were both
\* emitted and registered: each getter was read several times and resolved
\* once.
C11_Witness ==
  /\ graph["Widget"].base = "Base" /\ Len(graph["Widget"].interfaces) = 2
  /\ \A c \in ClassNames :
       /\ pc[1][c] = "emitted" /\ reg[1][c].done
       /\ lookups[1][c] = [base |-> 1, interfaces |-> 1]
  /\ go[1]["Base"]._extends = "null"
  /\ go[1]["Widget"]._extends = "Base"

----------------------------------------------------------------------------
(* The type graph is only read.                                            *)

\* The lists of the type t are, after the step, what they were before it, in
\* content and in order.
SameLists(t) ==
  /\ graph'[t].ownMethods = graph[t].ownMethods
  /\ graph'[t].ownProperties = graph[t].ownProperties
  /\ graph'[t].interfaces = graph[t].interfaces

\* So are the members collected from the class c once its constructor, which
\* filters and sorts them, ran.
SameCollectedMembers(c) ==
  (pc[1][c] = "new" /\ pc'[1][c] # "new") =>
    /\ allMethods(graph', c) = allMethods(graph, c)
    /\ allProperties(graph', c) = allProperties(graph, c)

====
